---- MODULE Spec2Model ----
(***************************************************************************)
(* CusparseLt (aten/src/ATen/native/cuda/CusparseLtKernels.cpp): one       *)
(* custom-class object that sequences cuSPARSELt calls.  Every vendor or   *)
(* CUDA call is one step of the model; its status (success or not) is an   *)
(* input of the step, and a non-success status raises through TORCH_CHECK. *)
(***************************************************************************)
EXTENDS Integers, Sequences, FiniteSets, TLC

\* ---------------------------------------------------------------- bounds
MaxDim == 2
MaxCalls == 2
MaxFailures == 1

\* ------------------------------------------------------ program constants
Sentinel == 7777
DefaultAlg == 0

Dims == 1..MaxDim
\* ids the vendor's search may report through CUSPARSELT_MATMUL_ALG_CONFIG_ID
VendorAlgIds == {DefaultAlg, 1, Sentinel}
DTypes == {"int8", "bfloat16", "float16", "float32"}
\* compute capabilities of the device the object is built on
Capabilities == {<<8, 0>>, <<8, 6>>, <<8, 9>>, <<7, 5>>}
Ops == {"N", "T"}

VARIABLES
  dtype,                    \* dtype of the tensor given to the constructor
  cc,                       \* <<major_cc, minor_cc>> of device 0
  handle,                   \* TRUE once cusparseLtInit has initialised it
  type, compute_type,
  alg_id,
  num_A_rows, opA,
  fieldsSet,                \* TRUE once compress has assigned opA and num_A_rows
  sparse_input_descriptor, dense_input_descriptor, res_descriptor,
  alg_sel, plan,
  compressedInto,           \* the tensor the last Compress2 wrote into
  pc,                       \* position inside the running member function
  local,                    \* locals of the running member function
  tally,                    \* what the current or last member function did
  entry,                    \* alg_id and live resources when it was entered
  vendor,                   \* the most recent vendor / CUDA call
  live,                     \* resources created and not yet released
  result,                   \* outcome of the last member function
  history,                  \* <<searches, multiplies, alg_id>> of each
                            \* completed helper call
  nCalls,                   \* member functions entered so far
  nFailures                 \* non-success statuses reported so far

vars == <<dtype, cc, handle, type, compute_type, alg_id, num_A_rows, opA,
          fieldsSet, sparse_input_descriptor, dense_input_descriptor,
          res_descriptor, alg_sel, plan, compressedInto, pc, local, tally,
          entry, vendor, live, result, history, nCalls, nFailures>>

object == <<dtype, cc, handle, type, compute_type>>

\* ------------------------------------------------------------- constructor
Supported(c) ==
  (c[1] = 8 /\ c[2] = 0) \/ (c[1] = 8 /\ c[2] = 6) \/ (c[1] = 8 /\ c[2] = 9)

\* the early return at line 87 leaves the member initialisers in place
CtorType(d, c) ==
  IF ~Supported(c) THEN "CUDA_R_16F"
  ELSE IF d = "int8" THEN "CUDA_R_8I"
  ELSE IF d = "bfloat16" THEN "CUDA_R_B16F"
  ELSE "CUDA_R_16F"

CtorComputeType(d, c) ==
  IF ~Supported(c) THEN "CUSPARSE_COMPUTE_16F"
  ELSE IF d = "int8" THEN "CUSPARSE_COMPUTE_32I"
  ELSE IF d = "bfloat16" THEN "CUSPARSE_COMPUTE_32I"
  ELSE "CUSPARSE_COMPUTE_16F"

CtorHandle(c) == Supported(c)

\* a descriptor or plan member that no Init call has filled in
NoDesc == [init |-> FALSE, rows |-> 0, cols |-> 0, ld |-> 0,
           type |-> "none", order |-> "none"]
NoPlan == [init |-> FALSE, alg |-> 0 - 1]
NoMatmul == [init |-> FALSE, opA |-> "N", opB |-> "N", A |-> NoDesc,
             B |-> NoDesc, C |-> NoDesc, compute_type |-> "none"]
NoLocal == [fn |-> "none", size0 |-> 0, size1 |-> 0, transposed |-> FALSE,
            op |-> "N", rows |-> 0, cols |-> 0, ld |-> 0, ldc |-> 0,
            res |-> <<0, 0>>, dBias |-> "none", matmul |-> NoMatmul]
NoTally == [fn |-> "none", search |-> 0, matmul |-> 0, made |-> <<0, 0, 0>>,
            freed |-> <<0, 0, 0>>]
NoVendor == [fn |-> "none", handle |-> TRUE, ok |-> TRUE, compressed |-> "none"]
NoLive == [dense |-> 0, res |-> 0, plan |-> 0, buffers |-> 0]
NoEntry == [alg_id |-> 0 - 1, live |-> NoLive]
NoResult == [kind |-> "none", shape |-> <<0, 0>>]

Init ==
  /\ dtype \in DTypes
  /\ cc \in Capabilities
  /\ handle = CtorHandle(cc)
  /\ type = CtorType(dtype, cc)
  /\ compute_type = CtorComputeType(dtype, cc)
  /\ alg_id = Sentinel
  \* num_A_rows and opA have no initialiser: until fieldsSet, what is held
  \* here is never used and each read yields an arbitrary value
  /\ num_A_rows = 0
  /\ opA = "N"
  /\ fieldsSet = FALSE
  /\ sparse_input_descriptor = NoDesc
  /\ dense_input_descriptor = NoDesc
  /\ res_descriptor = NoDesc
  /\ alg_sel = 0 - 1
  /\ plan = NoPlan
  /\ compressedInto = "none"
  /\ pc = "idle"
  /\ local = NoLocal
  /\ tally = NoTally
  /\ entry = NoEntry
  /\ vendor = NoVendor
  /\ live = NoLive
  /\ result = NoResult
  /\ history = <<>>
  /\ nFailures = 0
  /\ nCalls = 0

\* ------------------------------------------------- CHECK_CUDA / CHECK_CUSPARSE
\* the call named fn was issued with status ok, on the handle as it is
Issued(fn, ok, buf) ==
  [fn |-> fn, handle |-> handle, ok |-> ok, compressed |-> buf]

\* TORCH_CHECK throws: the member function is left where it stands
Raise ==
  /\ pc' = "raised"
  /\ result' = [kind |-> "raised", shape |-> <<0, 0>>]
  /\ nFailures' = nFailures + 1

\* the statuses a call may report: success or not
Statuses == BOOLEAN

\* the call fn at position from, with status ok, continuing at position to
Check(from, fn, buf, ok, to) ==
  /\ pc = from
  /\ vendor' = Issued(fn, ok, buf)
  /\ IF ok THEN pc' = to /\ UNCHANGED <<result, nFailures>> ELSE Raise

\* the locals live until the member function returns or throws
Locals(ok) == local' = IF ok THEN local ELSE NoLocal

\* -------------------------------------------------------------- compress
is_rowmajor == TRUE
NumARows(m, k, t) == IF t THEN k ELSE m
NumACols(m, k, t) == IF t THEN m ELSE k
OpOf(t) == IF t THEN "T" ELSE "N"
LeadingDim(rows, cols) == IF is_rowmajor THEN cols ELSE rows

\* lines 111-120: the members opA and num_A_rows are assigned before any call
CompressEnter ==
  /\ pc = "idle"
  /\ nCalls < MaxCalls
  /\ nFailures < MaxFailures
  /\ \E m \in Dims, k \in Dims, t \in BOOLEAN :
       /\ opA' = OpOf(t)
       /\ num_A_rows' = NumARows(m, k, t)
       /\ local' = [NoLocal EXCEPT !.fn = "compress", !.size0 = m,
                      !.size1 = k, !.transposed = t, !.op = OpOf(t),
                      !.rows = NumARows(m, k, t), !.cols = NumACols(m, k, t),
                      !.ld = LeadingDim(NumARows(m, k, t), NumACols(m, k, t))]
  /\ fieldsSet' = TRUE
  /\ pc' = "c124"
  /\ nCalls' = nCalls + 1
  /\ entry' = [alg_id |-> alg_id, live |-> live]
  /\ tally' = [NoTally EXCEPT !.fn = "compress"]
  /\ result' = [kind |-> "running", shape |-> <<0, 0>>]
  /\ UNCHANGED <<object, alg_id, sparse_input_descriptor,
                 dense_input_descriptor, res_descriptor, alg_sel, plan,
                 compressedInto, vendor, live, history, nFailures>>

\* lines 124-133
StructuredDescriptorInit ==
  /\ \E ok \in Statuses :
       /\ Check("c124", "cusparseLtStructuredDescriptorInit", "none", ok, "c175")
       /\ Locals(ok)
       /\ sparse_input_descriptor' =
            IF ok THEN [init |-> TRUE, rows |-> num_A_rows, cols |-> local.cols,
                        ld |-> local.ld, type |-> type, order |-> "ROW"]
            ELSE sparse_input_descriptor
  /\ UNCHANGED <<object, alg_id, num_A_rows, opA, fieldsSet,
                 dense_input_descriptor, res_descriptor, alg_sel, plan,
                 compressedInto, tally, entry, live, history, nCalls>>

\* lines 174-179
CompressedSize ==
  /\ \E ok \in Statuses :
       /\ Check("c175", "cusparseLtSpMMACompressedSize2", "none", ok, "c183")
       /\ Locals(ok)
  /\ UNCHANGED <<object, alg_id, num_A_rows, opA, fieldsSet,
                 sparse_input_descriptor, dense_input_descriptor,
                 res_descriptor, alg_sel, plan, compressedInto, tally, entry,
                 live, history, nCalls>>

\* lines 181-183: compressedBuffer is a local pointer; no cudaFree follows
CompressMalloc ==
  /\ \E ok \in Statuses :
       /\ Check("c183", "cudaMalloc", "none", ok, "c185")
       /\ Locals(ok)
       /\ live' = IF ok THEN [live EXCEPT !.buffers = @ + 1] ELSE live
  /\ UNCHANGED <<object, alg_id, num_A_rows, opA, fieldsSet,
                 sparse_input_descriptor, dense_input_descriptor,
                 res_descriptor, alg_sel, plan, compressedInto, tally, entry,
                 history, nCalls>>

\* lines 185-194: the compressed matrix goes to sparse_compressed.data_ptr()
Compress ==
  /\ pc = "c185"
  /\ \E ok \in Statuses :
       /\ vendor' = Issued("cusparseLtSpMMACompress2", ok, "sparse_compressed")
       /\ IF ok
          THEN /\ pc' = "returned"
               /\ result' = [kind |-> "void", shape |-> <<0, 0>>]
               /\ compressedInto' = "sparse_compressed"
               /\ UNCHANGED nFailures
          ELSE Raise /\ UNCHANGED compressedInto
  /\ local' = NoLocal
  /\ UNCHANGED <<object, alg_id, num_A_rows, opA, fieldsSet,
                 sparse_input_descriptor, dense_input_descriptor,
                 res_descriptor, alg_sel, plan, tally, entry, live, history,
                 nCalls>>

\* ------------------------------------- cusparselt_mm / cusparselt_addmm
rest == <<object, num_A_rows, opA, fieldsSet, sparse_input_descriptor,
          compressedInto, entry, history, nCalls>>

NumBRows(k, n, t) == IF t THEN n ELSE k
NumBCols(k, n, t) == IF t THEN k ELSE n

\* reads of the members that only compress assigns (lines 55 and 58)
ReadNumARows(garbage) == IF fieldsSet THEN num_A_rows ELSE garbage
ReadOpA(garbage) == IF fieldsSet THEN opA ELSE garbage

\* the tensor named as the compressed operand at lines 291 and 317
SparseOperand == "weight_compressed"

\* the branch at line 286 with its test dropped: every call searches
SearchBranchAlways(id) == TRUE

\* line 286
SearchBranch(id) == id = Sentinel

\* lines 206-229, entered from cusparselt_mm or cusparselt_addmm; dBias
\* only travels on to the vendor's attribute call, biasStride is always 0
cusparselt_helper(dBias) ==
  /\ pc = "idle"
  /\ nCalls < MaxCalls
  /\ nFailures < MaxFailures
  /\ \E k \in Dims, n \in Dims, contiguous \in BOOLEAN, g \in {0, MaxDim} :
       LET t == ~contiguous
           num_C_rows == ReadNumARows(g)
       IN local' = [NoLocal EXCEPT
                      !.fn = "cusparselt_helper", !.size0 = k, !.size1 = n,
                      !.transposed = t, !.op = OpOf(t),
                      !.rows = NumBRows(k, n, t),
                      !.cols = NumBCols(k, n, t),
                      !.ld = LeadingDim(NumBRows(k, n, t), NumBCols(k, n, t)),
                      !.ldc = LeadingDim(num_C_rows, n),
                      !.res = <<num_C_rows, n>>, !.dBias = dBias]
  /\ tally' = [NoTally EXCEPT !.fn = "cusparselt_helper"]
  /\ pc' = "h232"
  /\ nCalls' = nCalls + 1
  /\ entry' = [alg_id |-> alg_id, live |-> live]
  /\ result' = [kind |-> "running", shape |-> <<0, 0>>]
  /\ UNCHANGED <<object, alg_id, num_A_rows, opA, fieldsSet,
                 sparse_input_descriptor, dense_input_descriptor,
                 res_descriptor, alg_sel, plan, compressedInto, vendor, live,
                 history, nFailures>>

\* lines 196-198
cusparselt_mm == cusparselt_helper("nullptr")

\* lines 200-204
cusparselt_addmm == cusparselt_helper("bias.data_ptr()")

\* lines 232-240
DenseInputDescriptorInit ==
  /\ \E ok \in Statuses :
       /\ Check("h232", "cusparseLtDenseDescriptorInit", "none", ok, "h242")
       /\ Locals(ok)
       /\ IF ok
          THEN /\ dense_input_descriptor' =
                    [init |-> TRUE, rows |-> local.rows, cols |-> local.cols,
                     ld |-> local.ld, type |-> type, order |-> "ROW"]
               /\ live' = [live EXCEPT !.dense = @ + 1]
               /\ tally' = [tally EXCEPT !.made[1] = @ + 1]
          ELSE UNCHANGED <<dense_input_descriptor, live, tally>>
  /\ UNCHANGED <<rest, alg_id, res_descriptor, alg_sel, plan>>

\* lines 242-250
ResDescriptorInit ==
  /\ \E ok \in Statuses :
       /\ Check("h242", "cusparseLtDenseDescriptorInit", "none", ok, "h254")
       /\ Locals(ok)
       /\ IF ok
          THEN /\ res_descriptor' =
                    [init |-> TRUE, rows |-> local.res[1],
                     cols |-> local.size1, ld |-> local.ldc, type |-> type,
                     order |-> "ROW"]
               /\ live' = [live EXCEPT !.res = @ + 1]
               /\ tally' = [tally EXCEPT !.made[2] = @ + 1]
          ELSE UNCHANGED <<res_descriptor, live, tally>>
  /\ UNCHANGED <<rest, alg_id, dense_input_descriptor, alg_sel, plan>>

\* lines 254-263
MatmulDescriptorInit ==
  /\ \E ok \in Statuses, g \in Ops :
       /\ Check("h254", "cusparseLtMatmulDescriptorInit", "none", ok, "h267")
       /\ local' = IF ok
                   THEN [local EXCEPT !.matmul =
                           [init |-> TRUE, opA |-> ReadOpA(g),
                            opB |-> local.op,
                            A |-> sparse_input_descriptor,
                            B |-> dense_input_descriptor,
                            C |-> res_descriptor,
                            compute_type |-> compute_type]]
                   ELSE NoLocal
  /\ UNCHANGED <<rest, alg_id, dense_input_descriptor, res_descriptor,
                 alg_sel, plan, live, tally>>

\* lines 267-268
SetBiasPointer ==
  /\ \E ok \in Statuses :
       /\ Check("h267", "cusparseLtMatmulDescSetAttribute", "none", ok, "h270")
       /\ Locals(ok)
  /\ UNCHANGED <<rest, alg_id, dense_input_descriptor, res_descriptor,
                 alg_sel, plan, live, tally>>

\* lines 270-275
SetBiasStride ==
  /\ \E ok \in Statuses :
       /\ Check("h270", "cusparseLtMatmulDescSetAttribute", "none", ok, "h277")
       /\ Locals(ok)
  /\ UNCHANGED <<rest, alg_id, dense_input_descriptor, res_descriptor,
                 alg_sel, plan, live, tally>>

\* lines 277-278
AlgSelectionInit ==
  /\ \E ok \in Statuses :
       /\ Check("h277", "cusparseLtMatmulAlgSelectionInit", "none", ok, "h280")
       /\ Locals(ok)
       /\ alg_sel' = IF ok THEN DefaultAlg ELSE alg_sel
  /\ UNCHANGED <<rest, alg_id, dense_input_descriptor, res_descriptor, plan,
                 live, tally>>

\* line 280: the plan is built from the selection as it is at this point
PlanInit ==
  /\ \E ok \in Statuses :
       /\ Check("h280", "cusparseLtMatmulPlanInit", "none", ok, "h283")
       /\ Locals(ok)
       /\ IF ok
          THEN /\ plan' = [init |-> TRUE, alg |-> alg_sel]
               /\ live' = [live EXCEPT !.plan = @ + 1]
               /\ tally' = [tally EXCEPT !.made[3] = @ + 1]
          ELSE UNCHANGED <<plan, live, tally>>
  /\ UNCHANGED <<rest, alg_id, dense_input_descriptor, res_descriptor,
                 alg_sel>>

\* lines 282-283
GetWorkspace ==
  /\ \E ok \in Statuses :
       /\ Check("h283", "cusparseLtMatmulGetWorkspace", "none", ok, "h284")
       /\ Locals(ok)
  /\ UNCHANGED <<rest, alg_id, dense_input_descriptor, res_descriptor,
                 alg_sel, plan, live, tally>>

\* line 284: d_workspace is overwritten by every call; no cudaFree follows
WorkspaceMalloc ==
  /\ \E ok \in Statuses :
       /\ Check("h284", "cudaMalloc", "none", ok, "h286")
       /\ Locals(ok)
       /\ live' = IF ok THEN [live EXCEPT !.buffers = @ + 1] ELSE live
  /\ UNCHANGED <<rest, alg_id, dense_input_descriptor, res_descriptor,
                 alg_sel, plan, tally>>

\* lines 286-298: the search picks an algorithm for the plan
MatmulSearch ==
  /\ SearchBranch(alg_id)
  /\ \E ok \in Statuses, id \in VendorAlgIds :
       /\ Check("h286", "cusparseLtMatmulSearch", SparseOperand, ok, "h299")
       /\ Locals(ok)
       /\ IF ok
          THEN /\ alg_sel' = id
               /\ plan' = [plan EXCEPT !.alg = id]
               /\ tally' = [tally EXCEPT !.search = @ + 1]
          ELSE UNCHANGED <<alg_sel, plan, tally>>
  /\ UNCHANGED <<rest, alg_id, dense_input_descriptor, res_descriptor, live>>

\* lines 299-304
AlgGetAttribute ==
  /\ \E ok \in Statuses :
       /\ Check("h299", "cusparseLtMatmulAlgGetAttribute", "none", ok, "h327")
       /\ Locals(ok)
       /\ alg_id' = IF ok THEN alg_sel ELSE alg_id
  /\ UNCHANGED <<rest, dense_input_descriptor, res_descriptor, alg_sel, plan,
                 live, tally>>

\* lines 305-311
AlgSetAttribute ==
  /\ ~SearchBranch(alg_id)
  /\ \E ok \in Statuses :
       /\ Check("h286", "cusparseLtMatmulAlgSetAttribute", "none", ok, "h313")
       /\ Locals(ok)
       /\ alg_sel' = IF ok THEN alg_id ELSE alg_sel
  /\ UNCHANGED <<rest, alg_id, dense_input_descriptor, res_descriptor, plan,
                 live, tally>>

\* lines 313-324
Matmul ==
  /\ \E ok \in Statuses :
       /\ Check("h313", "cusparseLtMatmul", SparseOperand, ok, "h327")
       /\ Locals(ok)
       /\ tally' = IF ok THEN [tally EXCEPT !.matmul = @ + 1] ELSE tally
  /\ UNCHANGED <<rest, alg_id, dense_input_descriptor, res_descriptor,
                 alg_sel, plan, live>>

\* a Destroy call that gives nothing back
ReleaseNothing(l, what) == l

\* lines 327-329: one descriptor or plan of kind what is handed back
Release(l, what) == [l EXCEPT ![what] = @ - 1]

\* line 327
DenseInputDescriptorDestroy ==
  /\ \E ok \in Statuses :
       /\ Check("h327", "cusparseLtMatDescriptorDestroy", "none", ok, "h328")
       /\ Locals(ok)
       /\ IF ok
          THEN /\ dense_input_descriptor' = NoDesc
               /\ live' = Release(live, "dense")
               /\ tally' = [tally EXCEPT !.freed[1] = @ + 1]
          ELSE UNCHANGED <<dense_input_descriptor, live, tally>>
  /\ UNCHANGED <<rest, alg_id, res_descriptor, alg_sel, plan>>

\* line 328
ResDescriptorDestroy ==
  /\ \E ok \in Statuses :
       /\ Check("h328", "cusparseLtMatDescriptorDestroy", "none", ok, "h329")
       /\ Locals(ok)
       /\ IF ok
          THEN /\ res_descriptor' = NoDesc
               /\ live' = Release(live, "res")
               /\ tally' = [tally EXCEPT !.freed[2] = @ + 1]
          ELSE UNCHANGED <<res_descriptor, live, tally>>
  /\ UNCHANGED <<rest, alg_id, dense_input_descriptor, alg_sel, plan>>

\* lines 329-331: the last call of the helper, then return res
PlanDestroy ==
  /\ pc = "h329"
  /\ \E ok \in Statuses :
       /\ vendor' = Issued("cusparseLtMatmulPlanDestroy", ok, "none")
       /\ IF ok
          THEN /\ plan' = NoPlan
               /\ live' = Release(live, "plan")
               /\ tally' = [tally EXCEPT !.freed[3] = @ + 1]
               /\ pc' = "returned"
               /\ result' = [kind |-> "tensor", shape |-> local.res]
               /\ history' = Append(history,
                                     <<tally.search, tally.matmul, alg_id>>)
               /\ UNCHANGED nFailures
          ELSE Raise /\ UNCHANGED <<plan, live, tally, history>>
  /\ local' = NoLocal
  /\ UNCHANGED <<object, num_A_rows, opA, fieldsSet, sparse_input_descriptor,
                 compressedInto, entry, nCalls, alg_id,
                 dense_input_descriptor, res_descriptor, alg_sel>>

\* control is back with the caller, holding the tensor or the exception
Leave ==
  /\ pc \in {"returned", "raised"}
  /\ pc' = "idle"
  /\ local' = NoLocal
  /\ tally' = NoTally
  /\ entry' = NoEntry
  /\ vendor' = NoVendor
  /\ result' = NoResult
  /\ UNCHANGED <<object, alg_id, num_A_rows, opA, fieldsSet,
                 sparse_input_descriptor, dense_input_descriptor,
                 res_descriptor, alg_sel, plan, compressedInto, live, history,
                 nCalls, nFailures>>

Next ==
  \/ CompressEnter
  \/ StructuredDescriptorInit
  \/ CompressedSize
  \/ CompressMalloc
  \/ Compress
  \/ cusparselt_mm
  \/ cusparselt_addmm
  \/ DenseInputDescriptorInit
  \/ ResDescriptorInit
  \/ MatmulDescriptorInit
  \/ SetBiasPointer
  \/ SetBiasStride
  \/ AlgSelectionInit
  \/ PlanInit
  \/ GetWorkspace
  \/ WorkspaceMalloc
  \/ MatmulSearch
  \/ AlgGetAttribute
  \/ AlgSetAttribute
  \/ Matmul
  \/ DenseInputDescriptorDestroy
  \/ ResDescriptorDestroy
  \/ PlanDestroy
  \/ Leave

Spec == Init /\ [][Next]_vars

\* one object, built from a float16 tensor on a device of capability 8.0
InitOne == Init /\ dtype = "float16" /\ cc = <<8, 0>>
SpecOne == InitOne /\ [][Next]_vars

\* ------------------------------------------------------------ properties
HelperRunning == tally.fn = "cusparselt_helper"
HelperReturned == HelperRunning /\ pc = "returned"
HelperRaised == HelperRunning /\ pc = "raised"

C2_ShapesFormProduct ==
  LET M == local.matmul
      OpRows(d, op) == IF op = "T" THEN d.cols ELSE d.rows
      OpCols(d, op) == IF op = "T" THEN d.rows ELSE d.cols
  IN (/\ HelperRunning
      /\ M.init
      /\ compressedInto = "sparse_compressed"
      /\ M.A.init
      /\ OpCols(M.A, M.opA) = local.size0)
     => /\ OpRows(M.A, M.opA) = M.C.rows
        /\ OpRows(M.A, M.opA) = local.res[1]
        /\ OpCols(M.A, M.opA) = OpRows(M.B, M.opB)
        /\ OpCols(M.B, M.opB) = M.C.cols
        /\ M.C.cols = local.size1

\* C3: every initialised descriptor carries the element type that the dtype
\* of the constructor's tensor translates to.
C3_TypeIsTranslationOfDtype ==
  LET Translated == [int8 |-> "CUDA_R_8I", bfloat16 |-> "CUDA_R_B16F",
                     float16 |-> "CUDA_R_16F", float32 |-> "CUDA_R_32F"]
  IN \A d \in {sparse_input_descriptor, dense_input_descriptor,
               res_descriptor} :
       d.init => d.type = Translated[dtype]

\* C4: the compressed operand of every search and multiply call is the member
\* sparse_compressed, the tensor compress writes into.
C4_OperandIsSparseCompressed ==
  vendor.fn \in {"cusparseLtMatmulSearch", "cusparseLtMatmul"}
    => vendor.compressed = "sparse_compressed"

\* C5: every cuSPARSELt call is made on a supported device, with a handle
\* that cusparseLtInit initialised.
C5_HandleInitialised ==
  vendor.fn \notin {"none", "cudaMalloc"} => Supported(cc) /\ vendor.handle

\* C6: when cusparseLtMatmul runs, the plan it executes was initialised from
\* a selection that already held the stored alg_id.
C6_PlanCarriesAlgId ==
  vendor.fn = "cusparseLtMatmul" => plan.alg = alg_id

\* C7: a completed cusparselt_mm / cusparselt_addmm has initialised the dense
\* descriptor, the result descriptor and the plan once each and destroyed
\* each once; while no call has raised, no plan and no dense or result
\* descriptor is live between calls.
C7_DestroyedOncePerCall ==
  /\ HelperReturned =>
       tally.made = <<1, 1, 1>> /\ tally.freed = <<1, 1, 1>>
  /\ (nFailures = 0 /\ pc \in {"idle", "returned"}) =>
       live.dense = 0 /\ live.res = 0 /\ live.plan = 0

\* C7 witness: a call has completed and destroyed what it initialised
C7_Witness ==
  /\ HelperReturned
  /\ tally.made = <<1, 1, 1>>
  /\ tally.freed = <<1, 1, 1>>
  /\ live.dense = 0 /\ live.res = 0 /\ live.plan = 0
  /\ Len(history) = MaxCalls

\* C8: cusparselt_mm / cusparselt_addmm run only once compress has assigned
\* opA and num_A_rows, and the sparse descriptor handed to
\* cusparseLtMatmulDescriptorInit is one compress initialised.
C8_CompressBeforeMultiply ==
  /\ HelperRunning => fieldsSet
  /\ vendor.fn = "cusparseLtMatmulDescriptorInit"
       => sparse_input_descriptor.init

\* C9: when cusparselt_mm / cusparselt_addmm raises, no tensor is returned,
\* alg_id has its value from before the call, and no descriptor or plan the
\* call initialised is left live.
C9_RaiseLeavesNothingBehind ==
  HelperRaised =>
    /\ result.kind = "raised"
    /\ alg_id = entry.alg_id
    /\ live.dense = entry.live.dense
    /\ live.res = entry.live.res
    /\ live.plan = entry.live.plan

\* C10: a completed compress or multiply leaves as many device buffers
\* allocated as there were when it was entered.
C10_BuffersReleased ==
  pc = "returned" => live.buffers = entry.live.buffers

====
